---- MODULE Spec2Model ----
(***************************************************************************)
(* A model of the form of src/src/App.tsx: the zod schema createUserSchema *)
(* (validation and normalisation), the password-strength indicator, the    *)
(* techs field array and the submit cycle of handleSubmit(createUser).     *)
(*                                                                         *)
(* A JavaScript string is the sequence of its UTF-16 code units, each a    *)
(* number of 0..65535; "" is <<>>.  Lit(<<"a","b">>) writes the string     *)
(* "ab" of printable ASCII characters, that is <<97, 98>>.                 *)
(***************************************************************************)
EXTENDS Integers, Sequences, FiniteSets, TLC

VARIABLES
    name,            \* value of the input registered as "name"
    email,           \* value of the input registered as "email"
    password,        \* watch("password"): <<>> is undefined (nothing typed
                     \* yet), <<v>> is the string v
    techs,           \* the "techs" field array: a sequence of [title |-> string]
    output,          \* the useState string `output`
    data,            \* <<>>, or <<d>> with d the last argument of createUser
    isSubmitting,    \* formState.isSubmitting
    pending,         \* TRUE while the resolver's promise is not settled
    outcome,         \* <<>>, or <<r>> with r what the promise in flight
                     \* settles with
    lastOp,          \* history: the last handler that ran, or how the last
                     \* submission settled
    locale,          \* language of the host's default locale, which
                     \* toLocaleLowerCase() and toLocaleUpperCase() follow
    raw,             \* input handed to the schema (pure-function specification)
    result,          \* <<>>, or <<r>> with r the outcome of parsing raw
    candidate,       \* <<>>, or <<v>> with v the value watch("password") yields
    strong           \* <<>>, or <<b>> with b the regular expression's verdict

vars == <<name, email, password, techs, output, data,
          isSubmitting, pending, outcome, lastOp, locale, raw, result, candidate,
          strong>>

formVars == <<name, email, password, techs, output, data,
              isSubmitting, pending, outcome, lastOp, locale>>

pureVars == <<raw, result, candidate, strong>>

(***************************************************************************)
(* Characters                                                              *)
(***************************************************************************)
\* The printable characters of ASCII but the grave accent (U+0060), which
\* no string of TLA+ can hold: AsciiToUnderscore[i] has code unit 31 + i
\* and AsciiFromA[i] has code unit 96 + i.
AsciiToUnderscore ==
    <<" ", "!", "\"", "#", "$", "%", "&", "'", "(", ")", "*", "+", ",", "-",
      ".", "/", "0", "1", "2", "3", "4", "5", "6", "7", "8", "9", ":", ";",
      "<", "=", ">", "?", "@", "A", "B", "C", "D", "E", "F", "G", "H", "I",
      "J", "K", "L", "M", "N", "O", "P", "Q", "R", "S", "T", "U", "V", "W",
      "X", "Y", "Z", "[", "\\", "]", "^", "_">>

AsciiFromA ==
    <<"a", "b", "c", "d", "e", "f", "g", "h", "i", "j", "k", "l", "m", "n",
      "o", "p", "q", "r", "s", "t", "u", "v", "w", "x", "y", "z", "{", "|",
      "}", "~">>

\* The code unit of a printable ASCII character.
CodeUnit(ch) ==
    IF \E i \in DOMAIN AsciiFromA : AsciiFromA[i] = ch
    THEN 96 + (CHOOSE i \in DOMAIN AsciiFromA : AsciiFromA[i] = ch)
    ELSE 31 + (CHOOSE i \in DOMAIN AsciiToUnderscore :
                   AsciiToUnderscore[i] = ch)

\* The string spelled by a tuple of printable ASCII characters.
Lit(t) == [i \in 1..Len(t) |-> CodeUnit(t[i])]

\* The ranges a-z, A-Z and 0-9 of the regular expressions.
IsLower(c) == c \in 97..122
IsUpper(c) == c \in 65..90
IsDigit(c) == c \in 48..57
IsAlnum(c) == IsLower(c) \/ IsUpper(c) \/ IsDigit(c)

\* The line terminators of ECMAScript (LF, CR, U+2028, U+2029): what `.` of
\* a regular expression does not match.
LineTerminators == {10, 13, 8232, 8233}

\* What String.prototype.trim strips: the white space of ECMAScript (TAB,
\* VT, FF, SP, NBSP, U+1680, U+2000..U+200A, U+202F, U+205F, U+3000 and
\* U+FEFF) and its line terminators.
WhiteSpace ==
    {9, 11, 12, 32, 160, 5760, 8239, 8287, 12288, 65279}
        \cup (8192..8202) \cup LineTerminators

\* The halves of a surrogate pair: U+D800..U+DBFF and U+DC00..U+DFFF.
IsHighSurrogate(c) == c \in 55296..56319
IsLowSurrogate(c) == c \in 56320..57343

\* StringToCodePoints: a high surrogate followed by a low one is one code
\* point above U+FFFF; any other code unit, a lone surrogate included, is a
\* code point by itself.
RECURSIVE StringToCodePoints(_)
StringToCodePoints(s) ==
    IF s = <<>> THEN <<>>
    ELSE IF Len(s) >= 2 /\ IsHighSurrogate(s[1]) /\ IsLowSurrogate(s[2])
    THEN <<65536 + (s[1] - 55296) * 1024 + (s[2] - 56320)>>
             \o StringToCodePoints(SubSeq(s, 3, Len(s)))
    ELSE <<s[1]>> \o StringToCodePoints(Tail(s))

\* UTF16EncodeCodePoint
CodePointUnits(cp) ==
    IF cp < 65536 THEN <<cp>>
    ELSE <<55296 + ((cp - 65536) \div 1024), 56320 + ((cp - 65536) % 1024)>>

\* The concatenation of a sequence of sequences.
RECURSIVE Concat(_)
Concat(seqs) ==
    IF seqs = <<>> THEN <<>> ELSE Head(seqs) \o Concat(Tail(seqs))

(***************************************************************************)
(* Case conversion (lines 15, 19 and 31)                                   *)
(*                                                                         *)
(* The case of a code unit is the host's business: it follows the Unicode  *)
(* tables of the engine and, for toLocaleLowerCase() and                   *)
(* toLocaleUpperCase() called without an argument, the language of the     *)
(* host's default locale.  The conversion is modelled for the code units   *)
(* of Repertoire, ASCII and the white space of ECMAScript, on which all    *)
(* versions of the tables agree.  LowerCaseOf and UpperCaseOf are          *)
(* functions whose domain is that set: the conversion of a string with any *)
(* other code unit is not defined here.                                    *)
(***************************************************************************)
Repertoire == (0..127) \cup WhiteSpace

\* The languages whose casing rules toLocaleLowerCase() and
\* toLocaleUpperCase() apply (Azeri, Greek, Lithuanian and Turkish); "und"
\* is a host locale of any other language.
Locales == {"az", "el", "lt", "tr", "und"}

\* The languages with a dotted and a dotless i.
Turkic == {"az", "tr"}

\* U+0130, the capital I with a dot above, and U+0131, the small dotless i.
CapitalDottedI == 304

SmallDotlessI == 305

\* The lowercase of a code unit of Repertoire in a language that is not
\* Turkic: A-Z become a-z.
LowerCaseOf == [c \in Repertoire |-> IF IsUpper(c) THEN c + 32 ELSE c]

\* The uppercase of a code unit of Repertoire, or of the dotless i a Turkic
\* lowercase leaves, in a language that is not Turkic: a-z become A-Z and
\* the dotless i becomes I.
UpperCaseOf ==
    [c \in Repertoire \cup {SmallDotlessI} |->
        IF IsLower(c) THEN c - 32
        ELSE IF c = SmallDotlessI THEN 73
        ELSE c]

(***************************************************************************)
(* String methods used by the schema                                       *)
(***************************************************************************)
\* String.prototype.toLowerCase, which zod's .toLowerCase() calls (line
\* 31); it does not depend on the locale.
toLowerCase(s) == [i \in 1..Len(s) |-> LowerCaseOf[s[i]]]

\* name.toLocaleLowerCase() (line 15) in a host of the given language.  In
\* Azeri and Turkish the lowercase of I (73) is the dotless i; Greek and
\* Lithuanian change nothing for the code units of Repertoire.
toLocaleLowerCase(s, lang) ==
    [i \in 1..Len(s) |->
        IF lang \in Turkic /\ s[i] = 73 THEN SmallDotlessI
        ELSE LowerCaseOf[s[i]]]

\* word[0].toLocaleUpperCase() (line 19) in a host of the given language.
\* In Azeri and Turkish the uppercase of i (105) is the capital I with a
\* dot above.
toLocaleUpperCase(s, lang) ==
    [i \in 1..Len(s) |->
        IF lang \in Turkic /\ s[i] = 105 THEN CapitalDottedI
        ELSE UpperCaseOf[s[i]]]

\* Lookup in a table of <<code point, value>> pairs.
InSpecial(table, cp) == \E k \in DOMAIN table : table[k][1] = cp

MapSpecial(table, cp) ==
    table[CHOOSE k \in DOMAIN table : table[k][1] = cp][2]

RECURSIVE trimStart(_)
trimStart(s) ==
    IF s # <<>> /\ Head(s) \in WhiteSpace THEN trimStart(Tail(s)) ELSE s

RECURSIVE trimEnd(_)
trimEnd(s) ==
    IF s # <<>> /\ s[Len(s)] \in WhiteSpace
    THEN trimEnd(SubSeq(s, 1, Len(s) - 1))
    ELSE s

trim(s) == trimEnd(trimStart(s))

\* s.split(sep) for a separator of one code unit: "" gives [""], and two
\* adjacent separators give an empty word between them.
RECURSIVE split(_, _)
split(s, sep) ==
    IF \E i \in 1..Len(s) : s[i] = sep
    THEN LET k == CHOOSE i \in 1..Len(s) :
                      s[i] = sep /\ \A j \in 1..(i - 1) : s[j] # sep
         IN  <<SubSeq(s, 1, k - 1)>> \o split(SubSeq(s, k + 1, Len(s)), sep)
    ELSE <<s>>

RECURSIVE join(_, _)
join(words, sep) ==
    IF words = <<>> THEN <<>>
    ELSE IF Len(words) = 1 THEN words[1]
    ELSE words[1] \o <<sep>> \o join(Tail(words), sep)

\* word.substring(1)
substring1(word) == SubSeq(word, 2, Len(word))

(***************************************************************************)
(* createUserSchema (lines 7-51).  Every field parser returns              *)
(*   [threw  |-> the parse ended with an exception,                        *)
(*    issues |-> the zod issues in the order zod reports them,             *)
(*    value  |-> the parsed (normalised) value].                           *)
(* An issue is [path |-> field path, type |-> error kind]; the kinds stand *)
(* for the messages of the source:                                         *)
(*   EmptyField     "O nome / O e-mail / A senha / O nome da tecnologia    *)
(*                   e obrigatorio(a)"          (.nonempty)                *)
(*   InvalidFormat  "Formato de e-mail invalido" (.email)                  *)
(*   TooShort       "A senha precisa ter no minimo 6 caracteres" (.min(6)) *)
(*   EmptyList      "Pelo menos 1 tecnologia devem ser informada." (.min(1))*)
(***************************************************************************)
Issue(path, type) == [path |-> path, type |-> type]

\* z.string().nonempty(): the string has at least one code unit.
nonempty(s) == Len(s) >= 1

\* The callback of .transform on name (lines 13-22); 32 is the space of
\* split(" ") and join(" ").  word[0] is the first code unit of the word;
\* word[0] of an empty word is undefined, and
\* undefined.toLocaleUpperCase() throws a TypeError.  lang is the language
\* of the host's locale.
nameTransform(n, lang) ==
    LET words == split(trim(toLocaleLowerCase(n, lang)), 32)
    IN  IF \E i \in DOMAIN words : words[i] = <<>>
        THEN [threw |-> TRUE, value |-> <<>>]
        ELSE [threw |-> FALSE,
              value |-> join([i \in DOMAIN words |->
                                 toLocaleUpperCase(<<words[i][1]>>, lang)
                                     \o substring1(words[i])],
                             32)]

\* name: z.string().nonempty(...).transform(...) (lines 8-22).  zod runs the
\* transform only when the string passed its checks.
nameSchema(v, lang) ==
    IF ~nonempty(v)
    THEN [threw |-> FALSE, issues |-> <<Issue(<<"name">>, "EmptyField")>>,
          value |-> v]
    ELSE LET t == nameTransform(v, lang)
         IN  [threw |-> t.threw, issues |-> <<>>, value |-> t.value]

\* The expression zod's .email() tests,
\*   /^(?!\.)(?!.*\.\.)([A-Z0-9_'+\-\.]*)[A-Z0-9_+-]@([A-Z0-9][A-Z0-9\-]*\.)+[A-Z]{2,}$/i
\* Without the flag u, the flag i makes no code unit above U+007F match a
\* letter of ASCII.
Dot == CodeUnit(".")

Hyphen == CodeUnit("-")

AtSign == CodeUnit("@")

EmailLocalChars == {CodeUnit(ch) : ch \in {"_", "'", "+", "-", "."}}

EmailLocalLast == {CodeUnit(ch) : ch \in {"_", "+", "-"}}

emailLocalOk(l) ==
    /\ Len(l) >= 1
    /\ \A i \in 1..Len(l) : IsAlnum(l[i]) \/ l[i] \in EmailLocalChars
    /\ IsAlnum(l[Len(l)]) \/ l[Len(l)] \in EmailLocalLast
    /\ l[1] # Dot
    /\ \A i \in 1..(Len(l) - 1) :
          ~(l[i] = Dot /\ l[i + 1] = Dot)

emailDomainOk(d) ==
    LET labels == split(d, Dot)
        n == Len(labels)
    IN  /\ n >= 2
        /\ \A i \in 1..(n - 1) :
              /\ Len(labels[i]) >= 1
              /\ IsAlnum(labels[i][1])
              /\ \A j \in 2..Len(labels[i]) :
                    IsAlnum(labels[i][j]) \/ labels[i][j] = Hyphen
        /\ Len(labels[n]) >= 2
        /\ \A j \in 1..Len(labels[n]) :
              IsLower(labels[n][j]) \/ IsUpper(labels[n][j])

isEmail(s) ==
    \E k \in 1..Len(s) :
        /\ s[k] = AtSign
        /\ emailLocalOk(SubSeq(s, 1, k - 1))
        /\ emailDomainOk(SubSeq(s, k + 1, Len(s)))

\* email: z.string().nonempty(...).email(...).toLowerCase() (lines 23-31).
\* zod runs every check of a string, in the order written, and does not stop
\* at the first that fails.
emailSchema(v) ==
    [threw |-> FALSE,
     issues |-> (IF nonempty(v) THEN <<>>
                 ELSE <<Issue(<<"email">>, "EmptyField")>>)
                \o (IF isEmail(v) THEN <<>>
                    ELSE <<Issue(<<"email">>, "InvalidFormat")>>),
     value |-> toLowerCase(v)]

\* The minimum of password's .min (line 37).
PasswordMin == 6

\* passwordSchema without its .min(6) check.
passwordSchemaNoMin(v) ==
    [threw |-> FALSE,
     issues |-> (IF nonempty(v) THEN <<>>
                 ELSE <<Issue(<<"password">>, "EmptyField")>>),
     value |-> v]

\* password: z.string().nonempty(...).min(6, ...) (lines 32-39); the length
\* is counted in code units.
passwordSchema(v) ==
    [threw |-> FALSE,
     issues |-> (IF nonempty(v) THEN <<>>
                 ELSE <<Issue(<<"password">>, "EmptyField")>>)
                \o (IF Len(v) >= PasswordMin THEN <<>>
                    ELSE <<Issue(<<"password">>, "TooShort")>>),
     value |-> v]

\* The minimum of techs' .min (line 48).
TechsMin == 1

\* The issues of the elements i..Len(v) of techs, paths techs.<i-1>.title.
RECURSIVE techIssues(_, _)
techIssues(v, i) ==
    IF i > Len(v) THEN <<>>
    ELSE (IF nonempty(v[i].title) THEN <<>>
          ELSE <<Issue(<<"techs", i - 1, "title">>, "EmptyField")>>)
         \o techIssues(v, i + 1)

\* techs: z.array(z.object({title: z.string().nonempty(...)})).min(1, ...)
\* (lines 40-50).  The array's length is checked first, then each element.
techsSchema(v) ==
    [threw |-> FALSE,
     issues |-> (IF Len(v) >= TechsMin THEN <<>>
                 ELSE <<Issue(<<"techs">>, "EmptyList")>>)
                \o techIssues(v, 1),
     value |-> v]

\* createUserSchema: z.object({name, email, password, techs}) (lines 7-51).
\* The keys are parsed in the order of the shape; an exception of a
\* transform ends the whole parse.
createUserSchema(v, lang) ==
    LET n == nameSchema(v.name, lang)
        e == emailSchema(v.email)
        p == passwordSchema(v.password)
        t == techsSchema(v.techs)
    IN  [threw |-> n.threw,
         issues |-> n.issues \o e.issues \o p.issues \o t.issues,
         value |-> [name |-> n.value, email |-> e.value,
                    password |-> p.value, techs |-> t.value]]

\* The field errors zodResolver builds from the issues: the first issue of
\* each path.
toFieldErrors(issues) ==
    {issues[i] : i \in {k \in DOMAIN issues :
                           \A j \in 1..(k - 1) : issues[j].path # issues[k].path}}

\* resolver: zodResolver(createUserSchema) (line 59): what a submission gets.
\*   kind "success": data is <<the parsed record>>;
\*   kind "error":   errors holds the field errors;
\*   kind "throw":   the promise was rejected with the transform's exception.
zodResolver(v, lang) ==
    LET r == createUserSchema(v, lang)
    IN  IF r.threw THEN [kind |-> "throw", data |-> <<>>, errors |-> {}]
        ELSE IF r.issues # <<>>
        THEN [kind |-> "error", data |-> <<>>,
              errors |-> toFieldErrors(r.issues)]
        ELSE [kind |-> "success", data |-> <<r.value>>, errors |-> {}]

(***************************************************************************)
(* The password-strength indicator (lines 74-77)                           *)
(***************************************************************************)
\* The count of (?=.{8,}) (line 76).
StrongMin == 8

\* The bracket expressions of the RegExp (line 76).
InClass(class, c) ==
    IF class = "[a-z]" THEN IsLower(c)
    ELSE IF class = "[A-Z]" THEN IsUpper(c)
    ELSE IF class = "[0-9]" THEN IsDigit(c)
    ELSE ~IsAlnum(c)    \* "[^A-Za-z0-9]"

\* (?=.*[class]) at offset p: a code unit of the class follows, with no
\* line terminator before it (`.` does not match one).
LookaheadClass(s, p, class) ==
    \E q \in (p + 1)..Len(s) :
        /\ InClass(class, s[q])
        /\ \A j \in (p + 1)..(q - 1) : s[j] \notin LineTerminators

\* (?=.{n,}) at offset p.
LookaheadCount(s, p, n) ==
    /\ Len(s) - p >= n
    /\ \A j \in (p + 1)..(p + n) : s[j] \notin LineTerminators

\* new RegExp("(?=.*[a-z])(?=.*[A-Z])(?=.*[0-9])(?=.*[^A-Za-z0-9])(?=.{8,})")
\*     .test(s): the expression is not anchored, so every offset is tried.
RegExpTest(s) ==
    \E p \in 0..Len(s) :
        /\ LookaheadClass(s, p, "[a-z]")
        /\ LookaheadClass(s, p, "[A-Z]")
        /\ LookaheadClass(s, p, "[0-9]")
        /\ LookaheadClass(s, p, "[^A-Za-z0-9]")
        /\ LookaheadCount(s, p, StrongMin)

\* test() converts its argument to a string; w is <<>> for undefined and
\* <<v>> for the string v.
Undefined == Lit(<<"u","n","d","e","f","i","n","e","d">>)

StringOf(w) == IF w = <<>> THEN Undefined ELSE w[1]

\* isPasswordStrong (lines 75-77) for the value w of watch("password").
isPasswordStrong(w) == RegExpTest(StringOf(w))

\* userPassword (line 74).
userPassword == password

\* The label rendered beside "Senha" (lines 132-140).
passwordLabel ==
    IF isPasswordStrong(userPassword) THEN "Senha forte" ELSE "Senha fraca"

(***************************************************************************)
(* JSON.stringify(data, null, 2) (line 63), as a string                    *)
(***************************************************************************)
HexDigits ==
    Lit(<<"0","1","2","3","4","5","6","7","8","9","a","b","c","d","e","f">>)

\* UnicodeEscape: \u and the four hexadecimal digits, in lowercase, of n.
EscapeU == Lit(<<"\\", "u">>)

UnicodeEscape(n) ==
    EscapeU
        \o <<HexDigits[(n \div 4096) + 1], HexDigits[((n \div 256) % 16) + 1],
             HexDigits[((n \div 16) % 16) + 1], HexDigits[(n % 16) + 1]>>

\* The code points QuoteJSONString writes with a backslash and one
\* character: the quote, the backslash, U+0008, TAB, LF, FF and CR.
ShortEscapes ==
    << <<CodeUnit("\""), Lit(<<"\\", "\"">>)>>,
       <<CodeUnit("\\"), Lit(<<"\\", "\\">>)>>,
       <<8, Lit(<<"\\", "b">>)>>, <<9, Lit(<<"\\", "t">>)>>,
       <<10, Lit(<<"\\", "n">>)>>, <<12, Lit(<<"\\", "f">>)>>,
       <<13, Lit(<<"\\", "r">>)>> >>

\* QuoteJSONString for one code point: a short escape where there is one;
\* the \u escape for any other control character and for any surrogate
\* that is not half of a pair; every other code point as it is.
QuoteCodePoint(cp) ==
    IF InSpecial(ShortEscapes, cp) THEN MapSpecial(ShortEscapes, cp)
    ELSE IF cp < 32 \/ IsHighSurrogate(cp) \/ IsLowSurrogate(cp)
    THEN UnicodeEscape(cp)
    ELSE CodePointUnits(cp)

Quoted(s) ==
    LET cps == StringToCodePoints(s)
    IN  Concat([i \in 1..Len(cps) |-> QuoteCodePoint(cps[i])])

QuoteMark == Lit(<<"\"">>)

JSONString(s) == QuoteMark \o Quoted(s) \o QuoteMark

Indent(n) == [i \in 1..n |-> 32]

\* The line feed JSON.stringify puts between the members.
NewLine == <<10>>

\* The property names of the record, quoted and followed by ": ".
KeyName == Lit(<<"\"","n","a","m","e","\"",":"," ">>)

KeyEmail == Lit(<<"\"","e","m","a","i","l","\"",":"," ">>)

KeyPassword == Lit(<<"\"","p","a","s","s","w","o","r","d","\"",":"," ">>)

KeyTechs == Lit(<<"\"","t","e","c","h","s","\"",":"," ">>)

KeyTitle == Lit(<<"\"","t","i","t","l","e","\"",":"," ">>)

OpenBrace == Lit(<<"{">>)

CloseBrace == Lit(<<"}">>)

OpenBracket == Lit(<<"[">>)

CloseBracket == Lit(<<"]">>)

Comma == Lit(<<",">>)

JSONTech(t) ==
    Indent(4) \o OpenBrace \o NewLine
        \o Indent(6) \o KeyTitle \o JSONString(t.title) \o NewLine
        \o Indent(4) \o CloseBrace

RECURSIVE JSONTechs(_)
JSONTechs(ts) ==
    IF Len(ts) = 1 THEN JSONTech(ts[1])
    ELSE JSONTech(ts[1]) \o Comma \o NewLine \o JSONTechs(Tail(ts))

JSONArray(ts) ==
    IF ts = <<>> THEN OpenBracket \o CloseBracket
    ELSE OpenBracket \o NewLine \o JSONTechs(ts) \o NewLine
             \o Indent(2) \o CloseBracket

JSONstringify(d) ==
    OpenBrace \o NewLine
        \o Indent(2) \o KeyName \o JSONString(d.name) \o Comma \o NewLine
        \o Indent(2) \o KeyEmail \o JSONString(d.email) \o Comma \o NewLine
        \o Indent(2) \o KeyPassword \o JSONString(d.password)
        \o Comma \o NewLine
        \o Indent(2) \o KeyTechs \o JSONArray(d.techs) \o NewLine
        \o CloseBrace

(***************************************************************************)
(* The techs field array (lines 79-86, 183).  append and remove are        *)
(* methods of react-hook-form's useFieldArray, whose code is not part of   *)
(* the sources; they are modelled as the specification describes           *)
(* addTechRow and removeTechRow (section 4.1): "mutate the ordered         *)
(* sequence of TechEntry in the in-progress form state; index must be      *)
(* within current bounds or the operation is a no-op".                     *)
(***************************************************************************)
\* append(value): the entry is added at the end.
append(ts, value) == Append(ts, value)

\* remove(index), index counted from 0: the entry at index is taken out;
\* an index outside the bounds leaves the sequence as it is.
remove(ts, index) ==
    IF index \in 0..(Len(ts) - 1)
    THEN SubSeq(ts, 1, index) \o SubSeq(ts, index + 2, Len(ts))
    ELSE ts

(***************************************************************************)
(* The inputs of the page (lines 101-106, 117-122, 143-148, 176-180) and   *)
(* the browser's validation of the form (lines 90-93: no noValidate)       *)
(***************************************************************************)
\* A value an input of type text or password can hold (type="name" of line
\* 102 is no type of HTML and means text): the value of a single-line input
\* has no LF and no CR, whatever was typed or pasted.
IsTextInputValue(v) == \A i \in 1..Len(v) : v[i] \notin {10, 13}

\* The ASCII whitespace of HTML: TAB, LF, FF, CR and SP.
AsciiWhitespace == {9, 10, 12, 13, 32}

\* A value of ASCII that the input of type email (line 118) holds as it was
\* typed: it has no LF and no CR and no ASCII whitespace at either end.  A
\* browser may rewrite an address that has other code units (the domain in
\* its ASCII form); such values are not modelled.
IsAsciiEmailInputValue(v) ==
    /\ IsTextInputValue(v)
    /\ \A i \in 1..Len(v) : v[i] < 128
    /\ v # <<>> => v[1] \notin AsciiWhitespace /\ v[Len(v)] \notin AsciiWhitespace

\* A valid e-mail address of HTML,
\*   /^[a-zA-Z0-9.!#$%&'*+\/=?^_`{|}~-]+@[a-zA-Z0-9](?:[a-zA-Z0-9-]{0,61}[a-zA-Z0-9])?
\*     (?:\.[a-zA-Z0-9](?:[a-zA-Z0-9-]{0,61}[a-zA-Z0-9])?)*$/
\* 96 is the grave accent.
AtextChars ==
    {CodeUnit(ch) : ch \in {".", "!", "#", "$", "%", "&", "'", "*", "+", "/",
                            "=", "?", "^", "_", "{", "|", "}", "~", "-"}}
        \cup {96}

\* The longest label of a domain.
LabelLimit == 63

validLabel(l) ==
    /\ Len(l) \in 1..LabelLimit
    /\ \A i \in 1..Len(l) : IsAlnum(l[i]) \/ l[i] = Hyphen
    /\ IsAlnum(l[1])
    /\ IsAlnum(l[Len(l)])

isValidEmailAddress(s) ==
    \E k \in 1..Len(s) :
        /\ s[k] = AtSign
        /\ k >= 2
        /\ \A i \in 1..(k - 1) : IsAlnum(s[i]) \/ s[i] \in AtextChars
        /\ LET labels == split(SubSeq(s, k + 1, Len(s)), Dot)
           IN  \A i \in DOMAIN labels : validLabel(labels[i])

\* form.checkValidity(): the only constraint of the form is the type of the
\* email input, and an empty value satisfies it.
checkValidity == email = <<>> \/ isValidEmailAddress(email)

(***************************************************************************)
(* Bounds and the values the inputs are drawn from                         *)
(***************************************************************************)
MaxTechs == 3
MaxTechsIn == 2
MaxNameLen == 3
MaxCoreLen == 4
MaxPad == 6

SeqsUpTo(S, n) == UNION {[1..k -> S] : k \in 0..n}

\* Values of the inputs of the form: for the name "", " ", "a  b" and
\* "io DI".
NameValues ==
    { <<>>, Lit(<<" ">>), Lit(<<"a"," "," ","b">>),
      Lit(<<"i","o"," ","D","I">>) }
\* "", "abc", "a@b" (an address for the browser, none for zod), "A@b.Co".
EmailValues ==
    { <<>>, Lit(<<"a","b","c">>), Lit(<<"a","@","b">>),
      Lit(<<"A","@","b",".","C","o">>) }
PasswordValues ==
    { <<>>, Lit(<<"a","b","c">>), Lit(<<"A","b","c","d","e","f","1","!">>) }
TitleValues == { <<>>, Lit(<<"G","o">>) }

\* Inputs of the schema taken as a function.  The names past the short ones
\* over a, B and the space: "john doe", "a  b", "a<TAB>b", TAB, FF, LF "a",
\* CR LF "a b" CR LF, NBSP "aN" U+3000, "Ii", "ida LI" and "  x ".
NameInputs ==
    {Lit(t) : t \in SeqsUpTo({"a", "B", " "}, MaxNameLen)}
        \cup { Lit(<<"j","o","h","n"," ","d","o","e">>),
               Lit(<<"a"," "," ","b">>),
               <<97, 9, 98>>, <<9>>, <<12>>, <<10, 97>>,
               <<13, 10, 97, 32, 98, 13, 10>>, <<160, 97, 78, 12288>>,
               Lit(<<"I","i">>), Lit(<<"i","d","a"," ","L","I">>),
               Lit(<<" "," ","x"," ">>) }
\* "", " ", "no-at", "a@b", "a@b.c", ".a@b.co", "Jo@Ex.COM",
\* "JOHN@EXAMPLE.COM".
EmailInputs ==
    { <<>>, Lit(<<" ">>), Lit(<<"n","o","-","a","t">>), Lit(<<"a","@","b">>),
      Lit(<<"a","@","b",".","c">>), Lit(<<".","a","@","b",".","c","o">>),
      Lit(<<"J","o","@","E","x",".","C","O","M">>),
      Lit(<<"J","O","H","N","@","E","X","A","M","P","L","E",".","C","O","M">>) }
\* "", " ", "abc", "abcde", "abcdef", six spaces, "Secret1", and "abcde"
\* followed by the lone surrogate U+D83D.
PasswordInputs ==
    { <<>>, Lit(<<" ">>), Lit(<<"a","b","c">>), Lit(<<"a","b","c","d","e">>),
      Lit(<<"a","b","c","d","e","f">>), Lit(<<" "," "," "," "," "," ">>),
      Lit(<<"S","e","c","r","e","t","1">>),
      Lit(<<"a","b","c","d","e">>) \o <<55357>> }
TitleInputs == { <<>>, Lit(<<" ">>), Lit(<<"G","o">>) }
TechsInputs ==
    {[i \in DOMAIN ts |-> [title |-> ts[i]]] :
        ts \in SeqsUpTo(TitleInputs, MaxTechsIn)}
RawInputs ==
    [name : NameInputs, email : EmailInputs, password : PasswordInputs,
     techs : TechsInputs]

\* Values of watch("password") for the strength indicator: a core of up to
\* MaxCoreLen code units followed by up to MaxPad copies of one code unit,
\* over "a", "A", "1", "!" and the line separator U+2028.
StrengthAlphabet == Lit(<<"a", "A", "1", "!">>)
PasswordCandidates ==
    LET alphabet == {StrengthAlphabet[i] : i \in DOMAIN StrengthAlphabet}
                        \cup {8232}
    IN  {core \o [i \in 1..k |-> c] :
            core \in SeqsUpTo(alphabet, MaxCoreLen),
            c \in alphabet, k \in 0..MaxPad}

(***************************************************************************)
(* The form (lines 55-215)                                                 *)
(***************************************************************************)
\* The values handleSubmit hands to the resolver: an input nobody typed in
\* holds "".
FormValues ==
    [name |-> name, email |-> email,
     password |-> IF password = <<>> THEN <<>> ELSE password[1],
     techs |-> techs]

FormInit ==
    /\ name = <<>>
    /\ email = <<>>
    /\ password = <<>>
    /\ techs = <<>>
    /\ output = <<>>
    /\ data = <<>>
    /\ isSubmitting = FALSE
    /\ pending = FALSE
    /\ outcome = <<>>
    /\ lastOp = "none"
    /\ locale \in Locales

PureIdle ==
    /\ raw = [name |-> <<>>, email |-> <<>>, password |-> <<>>, techs |-> <<>>]
    /\ result = <<>>
    /\ candidate = <<>>
    /\ strong = <<>>

Init == FormInit /\ PureIdle

\* An edit of the inputs registered at lines 105, 121, 147 and 178 after
\* which the input holds v.  The name is kept to the code units whose case
\* conversion is modelled.  User events do not run while the resolver's
\* promise is being settled.
SetName(v) ==
    /\ ~pending
    /\ IsTextInputValue(v)
    /\ \A i \in 1..Len(v) : v[i] \in Repertoire
    /\ name' = v
    /\ lastOp' = "edit"
    /\ UNCHANGED <<email, password, techs, output, data, isSubmitting,
                   pending, outcome, locale>>
    /\ UNCHANGED pureVars

SetEmail(v) ==
    /\ ~pending
    /\ IsAsciiEmailInputValue(v)
    /\ email' = v
    /\ lastOp' = "edit"
    /\ UNCHANGED <<name, password, techs, output, data, isSubmitting,
                   pending, outcome, locale>>
    /\ UNCHANGED pureVars

SetPassword(v) ==
    /\ ~pending
    /\ IsTextInputValue(v)
    /\ password' = <<v>>
    /\ lastOp' = "edit"
    /\ UNCHANGED <<name, email, techs, output, data, isSubmitting,
                   pending, outcome, locale>>
    /\ UNCHANGED pureVars

SetTitle(index, v) ==
    /\ ~pending
    /\ index \in 0..(Len(techs) - 1)
    /\ IsTextInputValue(v)
    /\ techs' = [techs EXCEPT ![index + 1] = [title |-> v]]
    /\ lastOp' = "edit"
    /\ UNCHANGED <<name, email, password, output, data, isSubmitting,
                   pending, outcome, locale>>
    /\ UNCHANGED pureVars

\* addNewTech (lines 84-86), the handler of "Adicionar nova".
addNewTech ==
    /\ ~pending
    /\ Len(techs) < MaxTechs
    /\ techs' = append(techs, [title |-> <<>>])
    /\ lastOp' = "append"
    /\ UNCHANGED <<name, email, password, output, data, isSubmitting,
                   pending, outcome, locale>>
    /\ UNCHANGED pureVars

\* The handler of line 183 calling remove one row too far.
removeTechOffByOne(index) ==
    /\ ~pending
    /\ index \in 0..(Len(techs) - 1)
    /\ techs' = remove(techs, index + 1)
    /\ lastOp' = "remove"
    /\ UNCHANGED <<name, email, password, output, data, isSubmitting,
                   pending, outcome, locale>>
    /\ UNCHANGED pureVars

\* onClick={() => remove(index)} (line 183) of the row rendered at index:
\* the page calls remove with the index of a row it shows.
removeTech(index) ==
    /\ ~pending
    /\ index \in 0..(Len(techs) - 1)
    /\ techs' = remove(techs, index)
    /\ lastOp' = "remove"
    /\ UNCHANGED <<name, email, password, output, data, isSubmitting,
                   pending, outcome, locale>>
    /\ UNCHANGED pureVars

\* removeTechRow(index) of the specification with an index outside the
\* current bounds, which no button of the page asks for.
removeTechRow(index) ==
    /\ ~pending
    /\ index \notin 0..(Len(techs) - 1)
    /\ techs' = remove(techs, index)
    /\ lastOp' = "remove nothing"
    /\ UNCHANGED <<name, email, password, output, data, isSubmitting,
                   pending, outcome, locale>>
    /\ UNCHANGED pureVars

\* A submission handled without the resolver: the values of the form are
\* taken as they are.
SubmitUnresolved ==
    /\ ~isSubmitting
    /\ ~pending
    /\ checkValidity
    /\ isSubmitting' = TRUE
    /\ pending' = TRUE
    /\ outcome' = <<[kind |-> "success", data |-> <<FormValues>>,
                     errors |-> {}]>>
    /\ lastOp' = "submit"
    /\ UNCHANGED <<name, email, password, techs, output, data, locale>>
    /\ UNCHANGED pureVars

\* The submit button (lines 199-205) is disabled while isSubmitting.  A
\* click makes the browser validate the form (lines 90-93) and fire the
\* submit event only when it is valid; handleSubmit then sets isSubmitting
\* and calls the resolver with the values of the form, which returns a
\* promise.
Submit ==
    /\ ~isSubmitting
    /\ ~pending
    /\ checkValidity
    /\ isSubmitting' = TRUE
    /\ pending' = TRUE
    /\ outcome' = <<zodResolver(FormValues, locale)>>
    /\ lastOp' = "submit"
    /\ UNCHANGED <<name, email, password, techs, output, data, locale>>
    /\ UNCHANGED pureVars

\* createUser that keeps a record already displayed.
createUserOnce(d) ==
    /\ output' = IF output = <<>> THEN JSONstringify(d) ELSE output
    /\ data' = IF output = <<>> THEN <<d>> ELSE data

\* createUser (lines 62-64).
createUser(d) ==
    /\ output' = JSONstringify(d)
    /\ data' = <<d>>

\* The resolver accepted the values: handleSubmit calls createUser with the
\* parsed record.  lastOp tells a first record from one that replaces a
\* record already displayed.
SubmitValid ==
    /\ pending
    /\ outcome[1].kind = "success"
    /\ createUser(outcome[1].data[1])
    /\ isSubmitting' = FALSE
    /\ pending' = FALSE
    /\ outcome' = <<>>
    /\ lastOp' = IF output = <<>> THEN "valid" ELSE "replaced"
    /\ UNCHANGED <<name, email, password, techs, locale>>
    /\ UNCHANGED pureVars

\* A failed submission that clears the output.
SubmitInvalidClears ==
    /\ pending
    /\ outcome[1].kind = "error"
    /\ output' = <<>>
    /\ data' = <<>>
    /\ isSubmitting' = FALSE
    /\ pending' = FALSE
    /\ outcome' = <<>>
    /\ lastOp' = "invalid"
    /\ UNCHANGED <<name, email, password, techs, locale>>
    /\ UNCHANGED pureVars

\* The resolver returned field errors.  What handleSubmit, a function of
\* react-hook-form whose code is not part of the sources, does then is
\* taken from the specification: the errors are shown, createUser is not
\* called and the form is Idle again (section 4.1, Invalid -> Idle).
SubmitInvalid ==
    /\ pending
    /\ outcome[1].kind = "error"
    /\ isSubmitting' = FALSE
    /\ pending' = FALSE
    /\ outcome' = <<>>
    /\ lastOp' = "invalid"
    /\ UNCHANGED <<name, email, password, techs, output, data, locale>>
    /\ UNCHANGED pureVars

\* The resolver's promise was rejected with the transform's exception.
\* The specification knows no such outcome; its state machine has "no
\* terminal state; form is reusable after submission", so handleSubmit is
\* taken to leave the form Idle, without a record and without field errors.
SubmitThrew ==
    /\ pending
    /\ outcome[1].kind = "throw"
    /\ isSubmitting' = FALSE
    /\ pending' = FALSE
    /\ outcome' = <<>>
    /\ lastOp' = "threw"
    /\ UNCHANGED <<name, email, password, techs, output, data, locale>>
    /\ UNCHANGED pureVars

Next ==
    \/ \E v \in NameValues : SetName(v)
    \/ \E v \in EmailValues : SetEmail(v)
    \/ \E v \in PasswordValues : SetPassword(v)
    \/ \E index \in 0..(MaxTechs - 1), v \in TitleValues : SetTitle(index, v)
    \/ addNewTech
    \/ \E index \in 0..(MaxTechs - 1) : removeTech(index)
    \/ \E index \in (-1)..MaxTechs : removeTechRow(index)
    \/ Submit
    \/ SubmitValid
    \/ SubmitInvalid
    \/ SubmitThrew

Spec == Init /\ [][Next]_vars

\* The resolver's promise is settled by the microtasks of the event loop,
\* which run to completion once the submit handler has started: a
\* submission in flight does settle.
SpecFair ==
    /\ Spec
    /\ WF_vars(SubmitValid)
    /\ WF_vars(SubmitInvalid)
    /\ WF_vars(SubmitThrew)

(***************************************************************************)
(* The schema as a function of its input                                   *)
(***************************************************************************)
InitValidate ==
    /\ FormInit
    /\ raw \in RawInputs
    /\ result = <<>>
    /\ candidate = <<>>
    /\ strong = <<>>

Parse ==
    /\ result = <<>>
    /\ result' = <<zodResolver(raw, locale)>>
    /\ UNCHANGED <<formVars, raw, candidate, strong>>

SpecValidate == InitValidate /\ [][Parse]_vars

(***************************************************************************)
(* The strength indicator as a function of watch("password")               *)
(***************************************************************************)
InitStrength ==
    /\ FormInit
    /\ raw = [name |-> <<>>, email |-> <<>>, password |-> <<>>, techs |-> <<>>]
    /\ result = <<>>
    /\ candidate \in {<<>>} \cup {<<v>> : v \in PasswordCandidates}
    /\ strong = <<>>

Render ==
    /\ strong = <<>>
    /\ strong' = <<isPasswordStrong(candidate)>>
    /\ UNCHANGED <<formVars, raw, result, candidate>>

SpecStrength == InitStrength /\ [][Render]_vars

(***************************************************************************)
(* Properties                                                              *)
(***************************************************************************)
\* A blank string: the empty string, or a string made only of whitespace.
OnlyWhiteSpace(v) == \A i \in 1..Len(v) : v[i] \in WhiteSpace

BlankTitles(ts) == {i \in 1..Len(ts) : OnlyWhiteSpace(ts[i].title)}

TechsErrors(r) == {e \in r.errors : e.path[1] = "techs"}

FieldErrors(r, field) == {e \in r.errors : e.path = <<field>>}

\* A valid input, in the words of C1: non-empty name, valid email, password
\* of at least 6 characters, at least one tech and no empty title.
ValidInput(v) ==
    /\ Len(v.name) >= 1
    /\ isEmail(v.email)
    /\ Len(v.password) >= 6
    /\ Len(v.techs) >= 1
    /\ \A i \in 1..Len(v.techs) : Len(v.techs[i].title) >= 1

\* Title case as the specification words it, in a host of the given
\* language: in the lowercased name without its leading and trailing
\* whitespace, the first character of every whitespace-delimited word is
\* uppercased.
TitleCased(v, lang) ==
    LET t == trim(toLocaleLowerCase(v, lang))
    IN  Concat([i \in 1..Len(t) |->
                   IF i = 1 \/ t[i - 1] \in WhiteSpace
                   THEN toLocaleUpperCase(<<t[i]>>, lang) ELSE <<t[i]>>])

\* C1: every valid input (whatever the spacing of its name) is parsed with
\* success, never an error or an exception, and the record holds the
\* title-cased name and the lowercased email.
C1_ValidInputSucceeds ==
    (result # <<>> /\ ValidInput(raw)) =>
        /\ result[1].kind = "success"
        /\ result[1].data[1].name = TitleCased(raw.name, locale)
        /\ result[1].data[1].email = toLowerCase(raw.email)

\* C2: the displayed output is empty, or it renders a record whose name and
\* email are non-empty, whose password has at least 6 characters and whose
\* techs hold at least one entry and no empty title.
C2_DisplayedRecordIsValid ==
    \/ output = <<>>
    \/ /\ data # <<>>
       /\ output = JSONstringify(data[1])
       /\ Len(data[1].name) >= 1
       /\ Len(data[1].email) >= 1
       /\ Len(data[1].password) >= 6
       /\ Len(data[1].techs) >= 1
       /\ \A i \in 1..Len(data[1].techs) : Len(data[1].techs[i].title) >= 1

\* A record stays displayed after every row of the form was removed.
C2_Witness == output # <<>> /\ lastOp = "remove" /\ techs = <<>>

\* C3: an input whose name is blank fails with EmptyField at name, as an
\* error value and without a record.
C3_BlankNameIsEmptyField ==
    (result # <<>> /\ OnlyWhiteSpace(raw.name)) =>
        /\ result[1].kind = "error"
        /\ FieldErrors(result[1], "name") = {Issue(<<"name">>, "EmptyField")}
        /\ result[1].data = <<>>

\* What C4 says of an outcome r of parsing v.
TechsReported(v, r) ==
    IF v.techs = <<>>
    THEN r.kind = "error" /\ TechsErrors(r) = {Issue(<<"techs">>, "EmptyList")}
    ELSE /\ TechsErrors(r) =
              {Issue(<<"techs", i - 1, "title">>, "EmptyField") :
                  i \in BlankTitles(v.techs)}
         /\ BlankTitles(v.techs) # {} => r.kind = "error"

\* C4: an input without techs fails with EmptyList at techs; an input with
\* techs fails with EmptyField at techs.<i>.title for exactly the indices i
\* whose title is blank.
C4_TechsErrors == result # <<>> => TechsReported(raw, result[1])

\* What C5 says of an outcome r of parsing v.
EmailReported(v, r) ==
    IF OnlyWhiteSpace(v.email)
    THEN r.kind = "error"
         /\ FieldErrors(r, "email") = {Issue(<<"email">>, "EmptyField")}
    ELSE IF ~isEmail(v.email)
    THEN r.kind = "error"
         /\ FieldErrors(r, "email") = {Issue(<<"email">>, "InvalidFormat")}
    ELSE /\ FieldErrors(r, "email") = {}
         /\ r.kind = "success" =>
               /\ Len(r.data[1].email) = Len(v.email)
               /\ \A i \in 1..Len(v.email) :
                     r.data[1].email[i] =
                         IF IsUpper(v.email[i]) THEN v.email[i] + 32
                         ELSE v.email[i]

\* C5: a blank email fails with EmptyField (not InvalidFormat) at email, a
\* non-blank email that is no valid address fails with InvalidFormat at
\* email, and any other email is accepted and lowercased in the record.
C5_EmailErrors == result # <<>> => EmailReported(raw, result[1])

\* What C6 says of an outcome r of parsing v.
PasswordReported(v, r) ==
    IF OnlyWhiteSpace(v.password)
    THEN r.kind = "error"
         /\ FieldErrors(r, "password") = {Issue(<<"password">>, "EmptyField")}
    ELSE IF Len(v.password) <= 5
    THEN r.kind = "error"
         /\ FieldErrors(r, "password") = {Issue(<<"password">>, "TooShort")}
    ELSE /\ FieldErrors(r, "password") = {}
         /\ r.kind = "success" => r.data[1].password = v.password

\* C6: a blank password fails with EmptyField (not TooShort) at password, a
\* password of 1 to 5 characters fails with TooShort, and a password of 6 or
\* more characters is accepted and kept as typed in the record.
C6_PasswordErrors == result # <<>> => PasswordReported(raw, result[1])

C9_StrongIffAllClasses ==
    strong # <<>> =>
        strong[1] = (/\ candidate # <<>>
                     /\ \E i \in 1..Len(candidate[1]) : IsLower(candidate[1][i])
                     /\ \E i \in 1..Len(candidate[1]) : IsUpper(candidate[1][i])
                     /\ \E i \in 1..Len(candidate[1]) : IsDigit(candidate[1][i])
                     /\ \E i \in 1..Len(candidate[1]) : ~IsAlnum(candidate[1][i])
                     /\ Len(candidate[1]) >= 8)

\* The part of C9 the expression keeps: the same for the passwords that hold
\* no line terminator.
L9_StrongIffAllClassesOnOneLine ==
    (/\ strong # <<>>
     /\ candidate # <<>>
     /\ \A i \in 1..Len(candidate[1]) : candidate[1][i] \notin LineTerminators) =>
        strong[1] = (/\ \E i \in 1..Len(candidate[1]) : IsLower(candidate[1][i])
                     /\ \E i \in 1..Len(candidate[1]) : IsUpper(candidate[1][i])
                     /\ \E i \in 1..Len(candidate[1]) : IsDigit(candidate[1][i])
                     /\ \E i \in 1..Len(candidate[1]) : ~IsAlnum(candidate[1][i])
                     /\ Len(candidate[1]) >= 8)

\* C10: a submission that fails validation leaves the output as it was.
C10_FailedSubmitKeepsOutput ==
    [][(/\ pending
        /\ ~pending'
        /\ zodResolver(FormValues, locale).kind # "success")
           => output' = output]_vars

\* A submission failed while an earlier record was displayed.
C10_Witness == lastOp = "invalid" /\ output # <<>>

====
